---- MODULE Spec2Model ----
(***************************************************************************)
(* VLLMHandler (ts/torch_handler/vllm_handler.py): the request handler     *)
(* that bridges the serving host to the asynchronous inference engine.     *)
(*                                                                         *)
(* Python values are modelled as follows: a dict is a function (its keys   *)
(* are its DOMAIN), a list is a sequence, a str that is only compared is a *)
(* string, generated text is a sequence of characters (it is sliced), and  *)
(* None / an unbound local is the record None.                             *)
(*                                                                         *)
(* Three specifications share the actions:                                 *)
(*   Spec        one handle invocation at a time (task 1), every request   *)
(*               shape, the engine's whole vocabulary;                     *)
(*   SpecConc    NTasks handle invocations as cooperative tasks that       *)
(*               interleave at every await, requests that differ in their  *)
(*               adapter, a one-token vocabulary and generations of the    *)
(*               final event alone;                                        *)
(*   SpecConfig  initialize() over every deployment configuration.         *)
(***************************************************************************)
EXTENDS Integers, Sequences, FiniteSets, TLC

VARIABLES
    ctx,            \* the host's context: system_properties, model_yaml_config
    model_dir,      \* self.model_dir
    vllm_engine,    \* self.vllm_engine: the engine, holding its engine args
    adapters,       \* self.adapters: adapter name -> relative path
    lora_ids,       \* self.lora_ids: adapter name -> identifier
    initialized,    \* self.initialized
    init_error,     \* the exception initialize() raised, "" when none
    pc,             \* per invocation: where handle() stands
    data,           \* per invocation: handle's argument, the request batch
    data_preprocess,\* per invocation: preprocess's result (a one-element list)
    generator,      \* per invocation: the engine's generation stream
    generate_calls, \* per invocation: calls of vllm_engine.generate
    output,         \* per invocation: inference's loop variable
    text_len,       \* per invocation: inference's local text_len
    result,         \* per invocation: inference's local result
    sent,           \* per invocation: the intermediate responses pushed
    response,       \* per invocation: handle's local output, which it returns
    error,          \* per invocation: the exception handle raised, "" when none
    first_seen      \* history: adapter names in the order first resolved

vars == <<ctx, model_dir, vllm_engine, adapters, lora_ids, initialized,
          init_error, pc, data, data_preprocess, generator, generate_calls,
          output, text_len, result, sent, response, error, first_seen>>

instanceVars == <<model_dir, vllm_engine, adapters, initialized, init_error>>

taskVars == <<pc, data, data_preprocess, generator, generate_calls, output,
              text_len, result, sent, response, error>>

-----------------------------------------------------------------------------
(* Bounds *)

\* handle invocations that may be in flight together (SpecConc)
NTasks == 2

\* non-final events one generation may yield before its final event
MaxEvents == 2

Tasks == 1 .. NTasks

-----------------------------------------------------------------------------
(* Python values *)

None == [kind |-> "None"]

EmptyDict == << >>

\* dict.get(k, default)
Get(d, k, default) == IF k \in DOMAIN d THEN d[k] ELSE default

\* len(d.get(k, {})) for a str-valued key: the default {} has length 0
LenOf(d, k) == IF k \in DOMAIN d THEN Len(d[k]) ELSE 0

\* str(pathlib.Path(a).joinpath(b)) for a relative b
Joinpath(a, b) == a \o "/" \o b

\* d.setdefault(k, v): the dict afterwards
SetDefault_Overwrite(d, k, v) ==
    [x \in DOMAIN d \cup {k} |-> IF x = k THEN v ELSE d[x]]

SetDefault(d, k, v) == IF k \in DOMAIN d THEN d ELSE d @@ (k :> v)

\* _set_attr_value: obj's attributes after the loop over config.items()
SetAttrValue_SetsUnknown(obj, config) ==
    [k \in DOMAIN obj \cup DOMAIN config |->
        IF k \in DOMAIN config THEN config[k] ELSE obj[k]]

SetAttrValue(obj, config) ==
    [k \in DOMAIN obj |-> IF k \in DOMAIN config THEN config[k] ELSE obj[k]]

-----------------------------------------------------------------------------
(* The engine's types, as far as the handler reads them *)

\* AsyncEngineArgs(model=model): the fields the deployment may override
AsyncEngineArgs(model) ==
    [model |-> model, dtype |-> "auto", enable_lora |-> FALSE]

\* SamplingParams(): the fields a request may override
SamplingParams == [max_tokens |-> 16, n |-> 1]

\* token ids the engine may generate
Vocab == {1, 2, 3}

\* the one token SpecConc's engine generates
ConcVocab == {3}

\* the text a token detokenizes to; token 3 (end of sequence) adds none
Piece(tok) == CASE tok = 1 -> <<"a">>
                [] tok = 2 -> <<"b">>
                [] OTHER -> << >>

\* the RequestOutput after one more token: the text grows by appending
NextOutput(token_ids, text, tok, finished) ==
    [text |-> text \o Piece(tok),
     token_ids |-> Append(token_ids, tok),
     finished |-> finished]

\* exceptions the engine may raise during generation
EngineErrors == {"AsyncEngineDeadError", "ValueError"}

-----------------------------------------------------------------------------
(* Deployment configurations: model_yaml_config["handler"] *)

AdapterTable == [n \in {"A", "B", "C", "E"} |->
                    CASE n = "A" -> "adapters/a"
                      [] n = "B" -> "adapters/b"
                      [] n = "C" -> "adapters/c"
                      [] OTHER -> ""]

\* a dict with the entries of d whose key is in keys
Restrict(d, keys) == [k \in keys |-> d[k]]

EngineOverrides ==
    { Restrict(full, keys) :
        full \in { [model |-> m, dtype |-> "half", enable_lora |-> TRUE,
                    unknown_field |-> 1] : m \in {"X", ""} },
        keys \in SUBSET {"model", "dtype", "enable_lora", "unknown_field"} }

HandlerConfigs ==
    { Restrict(full, keys) :
        full \in { [vllm_engine_config |-> o, model_path |-> p,
                    adapters |-> AdapterTable] :
                      o \in EngineOverrides, p \in {"mp", ""} },
        keys \in { {"vllm_engine_config", "adapters"},
                   {"vllm_engine_config", "model_path", "adapters"},
                   {"model_path", "adapters"},
                   {"model_path"},
                   {"adapters"} } }

Context(handler_config) ==
    [system_properties |-> [model_dir |-> "/models"],
     model_yaml_config |-> [handler |-> handler_config]]

\* the deployments Spec and SpecConc run under
DeployConfigs ==
    { [vllm_engine_config |-> [model |-> "X", unknown_field |-> 1],
       adapters |-> AdapterTable],
      [model_path |-> "mp"] }

-----------------------------------------------------------------------------
(* initialize *)

\* _get_vllm_engine_config; exists: whether model_dir/model_path is on disk
GetVllmEngineConfig(handler_config, dir, exists) ==
    LET vllm_engine_params == Get(handler_config, "vllm_engine_config", EmptyDict)
        model_path == Get(handler_config, "model_path", "")
    IN  IF LenOf(vllm_engine_params, "model") = 0
        THEN IF LenOf(handler_config, "model_path") = 0
             THEN [error |-> "AssertionError", config |-> None]
             ELSE [error |-> "",
                   config |-> SetAttrValue(
                       AsyncEngineArgs(IF exists THEN Joinpath(dir, model_path)
                                                 ELSE model_path),
                       vllm_engine_params)]
        ELSE [error |-> "",
              config |-> SetAttrValue(AsyncEngineArgs(vllm_engine_params["model"]),
                                      vllm_engine_params)]

Initialize ==
    /\ ~initialized
    /\ init_error = ""
    /\ \E exists \in BOOLEAN :
        LET handler_config == ctx.model_yaml_config.handler
            dir == ctx.system_properties.model_dir
            r == GetVllmEngineConfig(handler_config, dir, exists)
        IN  /\ model_dir' = dir
            /\ IF r.error # ""
               THEN /\ init_error' = r.error
                    /\ UNCHANGED <<vllm_engine, adapters, initialized>>
               ELSE /\ vllm_engine' = [engine_args |-> r.config]
                    /\ adapters' = Get(handler_config, "adapters", EmptyDict)
                    /\ initialized' = TRUE
                    /\ UNCHANGED init_error
    /\ UNCHANGED <<ctx, lora_ids, first_seen>>
    /\ UNCHANGED taskVars

-----------------------------------------------------------------------------
(* Requests *)

\* a request body as a mapping
Payloads ==
    { Restrict(full, keys) :
        full \in { [prompt |-> "p", stream |-> s, lora_adapter |-> a,
                    max_tokens |-> 2, unknown_field |-> 1] :
                      s \in BOOLEAN, a \in {"", "A", "B", "C", "E", "U"} },
        keys \in { {"prompt"},
                   {"prompt", "stream"},
                   {"prompt", "lora_adapter"},
                   {"prompt", "stream", "lora_adapter"},
                   {"prompt", "stream", "max_tokens", "unknown_field"} } }

\* a request body as raw bytes, UTF-8 or not
BytesPayloads == { [bytes |-> TRUE, utf8 |-> u] : u \in BOOLEAN }

IsBytes(payload) == "bytes" \in DOMAIN payload

Batches ==
    {<< >>}
    \cup { <<[data |-> p]>> : p \in Payloads \cup BytesPayloads }
    \cup { <<[body |-> p]>> : p \in {[prompt |-> "p"], [prompt |-> "p", stream |-> TRUE]} }
    \cup { <<EmptyDict>> }
    \cup { <<[data |-> p], [data |-> p]>> : p \in {[prompt |-> "p"]} }

\* the batches SpecConc's tasks are invoked with
ConcBatches ==
    {<< >>}
    \cup { <<[data |-> p]>> :
             p \in { q \in Payloads :
                      /\ DOMAIN q \in { {"prompt"}, {"prompt", "lora_adapter"} }
                      /\ Get(q, "lora_adapter", "A") \in {"A", "B", "C", "U"} } }

-----------------------------------------------------------------------------
(* preprocess *)

\* len(self.lora_ids) + 1
NextLoraId_Count(ids) == Cardinality(DOMAIN ids)

NextLoraId(ids) == Cardinality(DOMAIN ids) + 1

\* _get_lora_request with the identifier assigned before the path is checked
GetLoraRequest_AssignsFirst(req_data, ids, adapter_table, dir) ==
    LET adapter_name == Get(req_data, "lora_adapter", "")
        adapter_path == Get(adapter_table, adapter_name, "")
        assigned == SetDefault(ids, adapter_name, NextLoraId(ids))
    IN  IF Len(adapter_name) > 0
        THEN IF Len(adapter_path) > 0
             THEN [error |-> "",
                   lora |-> [lora_name |-> adapter_name,
                             lora_int_id |-> assigned[adapter_name],
                             lora_path |-> Joinpath(dir, adapter_path)],
                   lora_ids |-> assigned]
             ELSE [error |-> "AssertionError", lora |-> None, lora_ids |-> assigned]
        ELSE [error |-> "", lora |-> None, lora_ids |-> ids]

\* _get_lora_request: the LoRARequest (or None) and self.lora_ids afterwards
GetLoraRequest(req_data, ids, adapter_table, dir) ==
    LET adapter_name == Get(req_data, "lora_adapter", "")
        adapter_path == Get(adapter_table, adapter_name, "")
        assigned == SetDefault(ids, adapter_name, NextLoraId(ids))
    IN  IF Len(adapter_name) > 0
        THEN IF Len(adapter_path) > 0
             THEN [error |-> "",
                   lora |-> [lora_name |-> adapter_name,
                             lora_int_id |-> assigned[adapter_name],
                             lora_path |-> Joinpath(dir, adapter_path)],
                   lora_ids |-> assigned]
             ELSE [error |-> "AssertionError", lora |-> None, lora_ids |-> ids]
        ELSE [error |-> "", lora |-> None, lora_ids |-> ids]

\* _get_sampling_params
GetSamplingParams(req_data) == SetAttrValue(SamplingParams, req_data)

\* prepare_completion_request: the tuple (prompt, stream, params, lora)
PrepareCompletionRequest(request, ids, adapter_table, dir) ==
    LET r == GetLoraRequest(request, ids, adapter_table, dir)
    IN  [error |-> r.error,
         value |-> IF r.error = ""
                   THEN <<[prompt |-> Get(request, "prompt", None),
                           stream |-> Get(request, "stream", FALSE),
                           params |-> GetSamplingParams(request),
                           lora |-> r.lora]>>
                   ELSE << >>,
         lora_ids |-> r.lora_ids]

\* preprocess's assertion on the batch
BatchSizeOk_AtLeastOne(requests) == Len(requests) >= 1

BatchSizeOk(requests) == Len(requests) = 1

\* req_data.get("data") or req_data.get("body")
RequestBody(req_data) ==
    IF "data" \in DOMAIN req_data THEN req_data.data
    ELSE Get(req_data, "body", None)

\* preprocess: its result, the exception it raises, self.lora_ids afterwards
PreprocessResult(requests, ids, adapter_table, dir) ==
    IF ~BatchSizeOk(requests)
    THEN [error |-> "AssertionError", value |-> << >>, lora_ids |-> ids]
    ELSE LET body == RequestBody(requests[1])
         IN  IF body = None
             THEN \* None has no attribute get
                  [error |-> "AttributeError", value |-> << >>, lora_ids |-> ids]
             ELSE IF IsBytes(body)
             THEN \* bytes are decoded to a str, which has no attribute get
                  [error |-> IF body.utf8 THEN "AttributeError"
                                          ELSE "UnicodeDecodeError",
                   value |-> << >>, lora_ids |-> ids]
             ELSE PrepareCompletionRequest(body, ids, adapter_table, dir)

\* the adapter a successful preprocess resolved, None when it resolved none
ResolvedLora(r) == IF r.error = "" THEN r.value[1].lora ELSE None

\* the host invokes handle(data, context) in slot t with a batch of B
Handle(t, B) ==
    /\ initialized
    /\ pc[t] \in {"idle", "done", "failed"}
    /\ \E requests \in B : data' = [data EXCEPT ![t] = requests]
    /\ pc' = [pc EXCEPT ![t] = "preprocess"]
    /\ data_preprocess' = [data_preprocess EXCEPT ![t] = << >>]
    /\ generator' = [generator EXCEPT ![t] = None]
    /\ generate_calls' = [generate_calls EXCEPT ![t] = 0]
    /\ output' = [output EXCEPT ![t] = None]
    /\ text_len' = [text_len EXCEPT ![t] = 0]
    /\ result' = [result EXCEPT ![t] = None]
    /\ sent' = [sent EXCEPT ![t] = << >>]
    /\ response' = [response EXCEPT ![t] = << >>]
    /\ error' = [error EXCEPT ![t] = ""]
    /\ UNCHANGED <<ctx, lora_ids, first_seen>>
    /\ UNCHANGED instanceVars

\* await self.preprocess(data, context): it holds no await of its own
Preprocess(t) ==
    /\ pc[t] = "preprocess"
    /\ LET r == PreprocessResult(data[t], lora_ids, adapters, model_dir)
           lora == ResolvedLora(r)
       IN  /\ lora_ids' = r.lora_ids
           /\ first_seen' =
                IF lora # None
                   /\ \A i \in 1 .. Len(first_seen) : first_seen[i] # lora.lora_name
                THEN Append(first_seen, lora.lora_name)
                ELSE first_seen
           /\ IF r.error # ""
              THEN /\ pc' = [pc EXCEPT ![t] = "failed"]
                   /\ error' = [error EXCEPT ![t] = r.error]
                   /\ UNCHANGED data_preprocess
              ELSE /\ pc' = [pc EXCEPT ![t] = "inference"]
                   /\ data_preprocess' = [data_preprocess EXCEPT ![t] = r.value]
                   /\ UNCHANGED error
    /\ UNCHANGED <<ctx, data, generator, generate_calls, output, text_len,
                   result, sent, response>>
    /\ UNCHANGED instanceVars

-----------------------------------------------------------------------------
(* inference *)

\* json.dumps(result) / model_dump_json(): the JSON document of a value
JsonDumps(value) == [json |-> value]

\* send_intermediate_predict_response(ret, req_ids, message, code, context)
IntermediateResponse(ret_list, request_ids) ==
    [ret |-> ret_list, request_ids |-> request_ids, message |-> "Result",
     code |-> 200]

\* the loop body with the guard on output.finished dropped
LoopBody_PushesFinal(stream, o, tl, res, pushed, request_ids) ==
    IF stream
    THEN LET r == [text |-> SubSeq(o.text, tl + 1, Len(o.text)),
                   tokens |-> o.token_ids[Len(o.token_ids)]]
         IN  [result |-> r,
              text_len |-> Len(o.text),
              sent |-> Append(pushed,
                              IntermediateResponse(<<JsonDumps(r)>>, request_ids))]
    ELSE [result |-> res, text_len |-> tl, sent |-> pushed]

\* the body of inference's async for, for the event o: the locals result and
\* text_len and the responses pushed, afterwards
LoopBody(stream, o, tl, res, pushed, request_ids) ==
    IF ~o.finished /\ stream
    THEN LET r == [text |-> SubSeq(o.text, tl + 1, Len(o.text)),
                   tokens |-> o.token_ids[Len(o.token_ids)]]
         IN  [result |-> r,
              text_len |-> Len(o.text),
              sent |-> Append(pushed,
                              IntermediateResponse(<<JsonDumps(r)>>, request_ids))]
    ELSE [result |-> res, text_len |-> tl, sent |-> pushed]

\* the completion envelope with the text of the first token only
CompletionResponse_FirstPiece(request_id, o) ==
    [id |-> request_id,
     created |-> "int(time.time())",
     model |-> "model_name",
     choices |-> <<[index |-> 0, text |-> Piece(o.token_ids[1]),
                    logprobs |-> None]>>,
     usage |-> [prompt_tokens |-> 0, completion_tokens |-> 0,
                total_tokens |-> 0]]

\* CompletionResponse(id, created, model, choices, usage) for the event o;
\* the creation time is opaque
CompletionResponse(request_id, o) ==
    [id |-> request_id,
     created |-> "int(time.time())",
     model |-> "model_name",
     choices |-> <<[index |-> 0, text |-> o.text, logprobs |-> None]>>,
     usage |-> [prompt_tokens |-> 0, completion_tokens |-> 0,
                total_tokens |-> 0]]

\* what inference returns after its loop, or the exception it raises: None
\* stands for a local that was never bound
InferenceResult(stream, o, res, request_id) ==
    IF ~stream
    THEN IF o = None
         THEN [error |-> "UnboundLocalError", value |-> << >>]
         ELSE [error |-> "",
               value |-> <<JsonDumps(CompletionResponse(request_id, o))>>]
    ELSE IF res = None
         THEN [error |-> "UnboundLocalError", value |-> << >>]
         ELSE [error |-> "", value |-> <<JsonDumps(res)>>]

\* postprocess
PostprocessResult(inference_outputs) == inference_outputs

\* context.request_ids for the invocation in slot t
RequestIds(t) == <<t>>

\* await self.inference(...), up to its first await: generate is called
Inference(t) ==
    /\ pc[t] = "inference"
    /\ LET req == data_preprocess[t][1]
       IN  generator' = [generator EXCEPT ![t] =
                            [prompt |-> req.prompt,
                             params |-> req.params,
                             request_id |-> RequestIds(t)[1],
                             lora |-> req.lora,
                             token_ids |-> << >>,
                             text |-> << >>,
                             state |-> "open"]]
    /\ generate_calls' = [generate_calls EXCEPT ![t] = @ + 1]
    /\ text_len' = [text_len EXCEPT ![t] = 0]
    /\ pc' = [pc EXCEPT ![t] = "generating"]
    /\ UNCHANGED <<ctx, lora_ids, first_seen, data, data_preprocess, output,
                   result, sent, response, error>>
    /\ UNCHANGED instanceVars

\* the generator yields its next event, a token of V further and final or
\* not (at most max_events are not), and the loop body runs for it
EngineYield(t, V, max_events) ==
    /\ pc[t] = "generating"
    /\ generator[t].state = "open"
    /\ \E tok \in V, finished \in BOOLEAN :
        /\ ~finished => Len(generator[t].token_ids) < max_events
        /\ LET o == NextOutput(generator[t].token_ids, generator[t].text,
                               tok, finished)
               b == LoopBody(data_preprocess[t][1].stream, o, text_len[t],
                             result[t], sent[t], RequestIds(t))
           IN  /\ generator' = [generator EXCEPT
                                  ![t].token_ids = o.token_ids,
                                  ![t].text = o.text,
                                  ![t].state = IF finished THEN "finished"
                                                           ELSE "open"]
               /\ output' = [output EXCEPT ![t] = o]
               /\ result' = [result EXCEPT ![t] = b.result]
               /\ text_len' = [text_len EXCEPT ![t] = b.text_len]
               /\ sent' = [sent EXCEPT ![t] = b.sent]
    /\ UNCHANGED <<ctx, lora_ids, first_seen, pc, data, data_preprocess,
                   generate_calls, response, error>>
    /\ UNCHANGED instanceVars

\* the failure caught and the partial result returned in its place
EngineRaise_Salvages(t) ==
    /\ pc[t] = "generating"
    /\ generator[t].state = "open"
    /\ \E e \in EngineErrors :
        generator' = [generator EXCEPT ![t].state = e]
    /\ response' = [response EXCEPT ![t] = <<JsonDumps(result[t])>>]
    /\ pc' = [pc EXCEPT ![t] = "postprocess"]
    /\ UNCHANGED <<ctx, lora_ids, first_seen, data, data_preprocess,
                   generate_calls, output, text_len, result, sent, error>>
    /\ UNCHANGED instanceVars

\* the generator raises in place of its next event: inference and handle
\* catch nothing, the exception leaves handle
EngineRaise(t) ==
    /\ pc[t] = "generating"
    /\ generator[t].state = "open"
    /\ \E e \in EngineErrors :
        /\ generator' = [generator EXCEPT ![t].state = e]
        /\ error' = [error EXCEPT ![t] = e]
    /\ pc' = [pc EXCEPT ![t] = "failed"]
    /\ UNCHANGED <<ctx, lora_ids, first_seen, data, data_preprocess,
                   generate_calls, output, text_len, result, sent, response>>
    /\ UNCHANGED instanceVars

\* the generator is exhausted after its final event: the loop ends and
\* inference builds what it returns
InferenceReturn(t) ==
    /\ pc[t] = "generating"
    /\ generator[t].state = "finished"
    /\ LET r == InferenceResult(data_preprocess[t][1].stream, output[t],
                                result[t], RequestIds(t)[1])
       IN  IF r.error # ""
           THEN /\ pc' = [pc EXCEPT ![t] = "failed"]
                /\ error' = [error EXCEPT ![t] = r.error]
                /\ UNCHANGED response
           ELSE /\ pc' = [pc EXCEPT ![t] = "postprocess"]
                /\ response' = [response EXCEPT ![t] = r.value]
                /\ UNCHANGED error
    /\ generator' = [generator EXCEPT ![t].state = "closed"]
    /\ UNCHANGED <<ctx, lora_ids, first_seen, data, data_preprocess,
                   generate_calls, output, text_len, result, sent>>
    /\ UNCHANGED instanceVars

\* await self.postprocess(output), then handle returns output
Postprocess(t) ==
    /\ pc[t] = "postprocess"
    /\ response' = [response EXCEPT ![t] = PostprocessResult(@)]
    /\ pc' = [pc EXCEPT ![t] = "done"]
    /\ UNCHANGED <<ctx, lora_ids, first_seen, data, data_preprocess, generator,
                   generate_calls, output, text_len, result, sent, error>>
    /\ UNCHANGED instanceVars

-----------------------------------------------------------------------------
(* Specifications *)

\* the state after VLLMHandler() under the context of handler_config
Constructed(handler_config) ==
    /\ ctx = Context(handler_config)
    /\ vllm_engine = None
    /\ model_dir = ""
    /\ lora_ids = EmptyDict
    /\ adapters = EmptyDict
    /\ initialized = FALSE
    /\ init_error = ""
    /\ pc = [t \in Tasks |-> "idle"]
    /\ data = [t \in Tasks |-> << >>]
    /\ data_preprocess = [t \in Tasks |-> << >>]
    /\ generator = [t \in Tasks |-> None]
    /\ generate_calls = [t \in Tasks |-> 0]
    /\ output = [t \in Tasks |-> None]
    /\ text_len = [t \in Tasks |-> 0]
    /\ result = [t \in Tasks |-> None]
    /\ sent = [t \in Tasks |-> << >>]
    /\ response = [t \in Tasks |-> << >>]
    /\ error = [t \in Tasks |-> ""]
    /\ first_seen = << >>

Init == \E handler_config \in DeployConfigs : Constructed(handler_config)

InitConfig == \E handler_config \in HandlerConfigs : Constructed(handler_config)

\* the steps of the invocation in slot t after the host has started it
TaskStep(t, V, max_events) ==
    \/ Preprocess(t)
    \/ Inference(t)
    \/ EngineYield(t, V, max_events)
    \/ EngineRaise(t)
    \/ InferenceReturn(t)
    \/ Postprocess(t)

Next ==
    \/ Initialize
    \/ Handle(1, Batches)
    \/ TaskStep(1, Vocab, MaxEvents)

NextConc ==
    \/ Initialize
    \/ \E t \in Tasks : Handle(t, ConcBatches)
    \/ \E t \in Tasks : TaskStep(t, ConcVocab, 0)

NextConfig == Initialize

Spec == Init /\ [][Next]_vars

SpecConc == Init /\ [][NextConc]_vars

SpecConfig == InitConfig /\ [][NextConfig]_vars

-----------------------------------------------------------------------------
(* Vocabulary of the properties *)

\* preprocess succeeded for the invocation in slot t
Translated(t) == data_preprocess[t] # << >>

Streaming(t) == Translated(t) /\ data_preprocess[t][1].stream

NonStreaming(t) == Translated(t) /\ ~data_preprocess[t][1].stream

\* engine.generate was called for the invocation in slot t
Generating(t) == generator[t] # None

\* the invocation in slot t consumed the engine's final event
FinalSeen(t) == output[t] # None /\ output[t].finished

\* inference's loop ended for the invocation in slot t
LoopEnded(t) == Generating(t) /\ generator[t].state = "closed"

\* the engine raised during the generation of the invocation in slot t
EngineRaised(t) == Generating(t) /\ generator[t].state \in EngineErrors

\* the text field of the i-th intermediate response of slot t
SentText(t, i) == sent[t][i].ret[1].json.text

\* the tokens field of the i-th intermediate response of slot t
SentTokens(t, i) == sent[t][i].ret[1].json.tokens

RECURSIVE ConcatSent(_, _)
\* the text fields of the first n intermediate responses of slot t, concatenated
ConcatSent(t, n) == IF n = 0 THEN << >> ELSE ConcatSent(t, n - 1) \o SentText(t, n)

\* the non-final events the invocation in slot t has consumed
NonFinalEvents(t) ==
    Len(generator[t].token_ids) - (IF FinalSeen(t) THEN 1 ELSE 0)

\* the adapter name a batch of one mapping request asks for, "" when none
AdapterAsked(requests) ==
    IF Len(requests) = 1
    THEN LET body == RequestBody(requests[1])
         IN  IF body # None /\ ~IsBytes(body)
             THEN Get(body, "lora_adapter", "")
             ELSE ""
    ELSE ""

\* a batch of one mapping request
OneMapping(requests) ==
    /\ Len(requests) = 1
    /\ RequestBody(requests[1]) # None
    /\ ~IsBytes(RequestBody(requests[1]))

\* the batch violates a precondition: its size is not one, or it names an
\* adapter that the table lacks or maps to an empty path
ViolatesPrecondition(requests) ==
    \/ Len(requests) # 1
    \/ /\ Len(AdapterAsked(requests)) > 0
       /\ Len(Get(adapters, AdapterAsked(requests), "")) = 0

\* the 1-based rank of an adapter name among the names first resolved
Rank(name) == CHOOSE i \in 1 .. Len(first_seen) : first_seen[i] = name

FirstSeenNames == { first_seen[i] : i \in 1 .. Len(first_seen) }

\* the LoRARequest the invocation in slot t holds, None when it holds none
LoraOf(t) == IF Translated(t) THEN data_preprocess[t][1].lora ELSE None

-----------------------------------------------------------------------------
(* C1, C5, C7, C2: the response emitter *)

\* C1: once a stream=true request has consumed the engine's final event, the
\* text fields of its intermediate responses, concatenated in emission order,
\* equal the final event's full text (the engine's text grows by appending
\* only, see NextOutput).
C1_StreamedTextIsFinalText ==
    \A t \in Tasks :
        (Streaming(t) /\ FinalSeen(t))
            => ConcatSent(t, Len(sent[t])) = generator[t].text

\* C5: once the loop of a stream=true request has ended after the final
\* event, inference returned exactly one item, the JSON of the last
\* intermediate result that was pushed.
C5_StreamFinalIsLastResult ==
    \A t \in Tasks :
        (Streaming(t) /\ LoopEnded(t))
            => /\ pc[t] \in {"postprocess", "done"}
               /\ Len(response[t]) = 1
               /\ Len(sent[t]) > 0
               /\ response[t][1] = sent[t][Len(sent[t])].ret[1]

\* C7: a stream=true request has pushed exactly one intermediate response per
\* non-final event consumed, in the events' order (the i-th response carries
\* the i-th event's latest token) and none for the final event; a
\* stream=false request has pushed none.
C7_OnePushPerNonFinalEvent ==
    \A t \in Tasks :
        Generating(t)
            => IF data_preprocess[t][1].stream
               THEN /\ Len(sent[t]) = NonFinalEvents(t)
                    /\ \A i \in 1 .. Len(sent[t]) :
                         /\ SentTokens(t, i) = generator[t].token_ids[i]
                         /\ sent[t][i].request_ids = RequestIds(t)
               ELSE sent[t] = << >>

\* C7's case: a stream=true request that consumed two non-final events and
\* the final one
C7_Witness ==
    \E t \in Tasks :
        /\ Streaming(t) /\ FinalSeen(t)
        /\ Len(generator[t].token_ids) = 3
        /\ Len(sent[t]) = 2

\* C2: for a batch of one well-formed stream=false request whose generation
\* ended with the final event, inference returned, and handle returns,
\* exactly one item whose choices[0].text is the final event's full text.
C2_NonStreamTextIsFinalText ==
    \A t \in Tasks :
        (NonStreaming(t) /\ Len(data[t]) = 1 /\ LoopEnded(t))
            => /\ pc[t] \in {"postprocess", "done"}
               /\ error[t] = ""
               /\ Len(response[t]) = 1
               /\ response[t][1].json.choices[1].text = generator[t].text
               /\ response[t][1].json.choices[1].index = 0

\* C2's case: handle returned for a stream=false request whose generation
\* took three events and produced two characters
C2_Witness ==
    \E t \in Tasks :
        /\ NonStreaming(t) /\ pc[t] = "done"
        /\ Len(generator[t].token_ids) = 3
        /\ Len(generator[t].text) = 2

-----------------------------------------------------------------------------
(* C8: engine failures *)

C8_FailurePropagates ==
    \A t \in Tasks :
        EngineRaised(t)
            => /\ pc[t] = "failed"
               /\ error[t] = generator[t].state
               /\ generate_calls[t] = 1
               /\ response[t] = << >>

C8_NoPushAfterFailure ==
    \A t \in Tasks :
        (EngineRaised(t) /\ generator'[t] = generator[t]) => sent'[t] = sent[t]

\* C8: when the engine raises during a generation, handle ends with that
\* failure, generate was called exactly once for the request, no final
\* response exists, and no intermediate response is pushed afterwards.
C8_EngineFailure == [] C8_FailurePropagates /\ [][C8_NoPushAfterFailure]_vars

\* C8's case: the engine raised between events of a stream=true request, after
\* an intermediate response was pushed
C8_Witness ==
    \E t \in Tasks :
        /\ EngineRaised(t) /\ Streaming(t)
        /\ Len(sent[t]) = 1
        /\ pc[t] = "failed"

-----------------------------------------------------------------------------
(* C4, C10, C3, C9: preconditions and the adapter-identifier table *)

\* C4: a request that violates a precondition and that preprocess has run on
\* has failed with the assertion's error, and generate was never called for it.
C4_PreconditionRejected ==
    \A t \in Tasks :
        (pc[t] \notin {"idle", "preprocess"} /\ ViolatesPrecondition(data[t]))
            => /\ pc[t] = "failed"
               /\ error[t] = "AssertionError"
               /\ generate_calls[t] = 0
               /\ ~Generating(t)

\* C4's case: a request naming an adapter whose path is empty was rejected
C4_Witness ==
    \E t \in Tasks :
        /\ pc[t] = "failed"
        /\ AdapterAsked(data[t]) = "E"

C10_RejectedLeavesTable ==
    \A t \in Tasks :
        ( /\ pc[t] = "preprocess"
          /\ pc'[t] # "preprocess"
          /\ \/ ViolatesPrecondition(data[t])
             \/ OneMapping(data[t]) /\ AdapterAsked(data[t]) = "" )
            => lora_ids' = lora_ids

C10_NextIdentifier ==
    \A n \in DOMAIN lora_ids' \ DOMAIN lora_ids :
        lora_ids'[n] = Len(first_seen) + 1

\* C10: preprocess of a rejected request, or of one that names no adapter,
\* leaves the identifier table as it was, and an identifier that enters the
\* table is the number of first-time resolutions so far plus one.
C10_TableFrame == [][C10_RejectedLeavesTable /\ C10_NextIdentifier]_vars

\* C10's case: a request was rejected for its adapter while the table held
\* an identifier
C10_Witness ==
    \E t \in Tasks :
        /\ pc[t] = "failed"
        /\ AdapterAsked(data[t]) = "U"
        /\ Cardinality(DOMAIN lora_ids) >= 1

C3_IdentifierIsRank ==
    /\ DOMAIN lora_ids = FirstSeenNames
    /\ \A n \in DOMAIN lora_ids : lora_ids[n] = Rank(n)
    /\ \A t \in Tasks :
         LoraOf(t) # None
            => /\ LoraOf(t).lora_name \in FirstSeenNames
               /\ LoraOf(t).lora_int_id = Rank(LoraOf(t).lora_name)

C3_IdentifierKept ==
    \A n \in DOMAIN lora_ids :
        n \in DOMAIN lora_ids' /\ lora_ids'[n] = lora_ids[n]

\* C3: over any sequence of requests, the identifier resolved for an adapter
\* name is the name's 1-based rank in the order of first resolution, and an
\* identifier once assigned never changes.
C3_FirstSeenRank == [] C3_IdentifierIsRank /\ [][C3_IdentifierKept]_vars

\* C3's case: after three names were resolved, a request resolved the second
\* of them again
C3_Witness ==
    \E t \in Tasks :
        /\ Len(first_seen) = 3
        /\ LoraOf(t) # None
        /\ LoraOf(t).lora_int_id = 2
        /\ pc[t] = "inference"

C9_TableConsistent ==
    /\ \A n, m \in DOMAIN lora_ids : lora_ids[n] = lora_ids[m] => n = m
    /\ \A t \in Tasks :
         LoraOf(t) # None
            => /\ LoraOf(t).lora_name \in DOMAIN lora_ids
               /\ LoraOf(t).lora_int_id = lora_ids[LoraOf(t).lora_name]

C9_NoSecondIdentifier ==
    \A n \in DOMAIN lora_ids :
        n \in DOMAIN lora_ids' /\ lora_ids'[n] = lora_ids[n]

\* C9: with handle invocations interleaving at their awaits, no two adapter
\* names ever hold the same identifier, every invocation in flight holds the
\* identifier the table gives its adapter, and no name is given a second
\* identifier.
C9_ConcurrentTable == [] C9_TableConsistent /\ [][C9_NoSecondIdentifier]_vars

\* C9's case: two invocations in flight together, awaiting engine events,
\* with different adapters
C9_Witness ==
    \E t, u \in Tasks :
        /\ t # u
        /\ pc[t] = "generating" /\ pc[u] = "generating"
        /\ LoraOf(t) # None /\ LoraOf(u) # None
        /\ LoraOf(t).lora_name # LoraOf(u).lora_name

-----------------------------------------------------------------------------
(* C6: the engine configuration *)

\* C6: after initialize, the engine args hold the override's value in every
\* field the override map names, the constructor's value in every other field
\* (the default, and for model the resolved model path), no field the
\* constructor lacks; initialize fails only for want of a model, never for an
\* unknown key.
C6_PermissiveMerge ==
    LET handler_config == ctx.model_yaml_config.handler
        overrides == Get(handler_config, "vllm_engine_config", EmptyDict)
        model_path == Get(handler_config, "model_path", "")
    IN  /\ initialized =>
            LET args == vllm_engine.engine_args
            IN  /\ DOMAIN args = DOMAIN AsyncEngineArgs("")
                /\ \A f \in DOMAIN args :
                     IF f \in DOMAIN overrides THEN args[f] = overrides[f]
                     ELSE IF f = "model"
                          THEN args[f] \in {model_path,
                                            Joinpath(model_dir, model_path)}
                          ELSE args[f] = AsyncEngineArgs("")[f]
        /\ init_error # "" =>
            /\ LenOf(overrides, "model") = 0
            /\ LenOf(handler_config, "model_path") = 0
        /\ (initialized \/ init_error # "") =>
            (initialized <=> (LenOf(overrides, "model") > 0
                              \/ LenOf(handler_config, "model_path") > 0))

\* C6's case: the override map {model: X, unknown_field: 1}
C6_Witness ==
    /\ initialized
    /\ Get(ctx.model_yaml_config.handler, "vllm_engine_config", EmptyDict)
         = [model |-> "X", unknown_field |-> 1]
    /\ vllm_engine.engine_args = AsyncEngineArgs("X")

====
